---- MODULE Spec2Model ----
(***************************************************************************)
(* A model of log-analysis-bot (src/main.py): the global configuration and *)
(* its YAML file, the shared LogAnalyzer, and the handlers send_logs,      *)
(* toggle_filter, show_filters_menu and handle_document as the asyncio     *)
(* event loop and the worker threads of asyncio.to_thread interleave them. *)
(*                                                                         *)
(* Text is a sequence of one-character strings.  Non-ASCII characters of   *)
(* the source are written with ASCII stand-ins of the same length.         *)
(***************************************************************************)
EXTENDS Integers, Sequences, FiniteSets, TLC

\* ------------------------------------------------------------------ bounds

\* Longest log file, in lines, of the scanning specification.
MaxFileLines == 2
\* Largest max_lines of the scanning specification.
MaxWindow == 2
\* Longest log file, in lines, of the formatting specification.
MaxBigLines == 43
\* The chunking specification has texts of up to MaxChunks * CHUNK + 1
\* characters.
MaxChunks == 2

\* ------------------------------------------------------- program constants

\* send_logs: the largest message it delivers in one piece.
CHUNK == 4000
\* format_results: lines[-20:].
SHOWN == 20
\* DEFAULT_CONFIG['max_lines'].
DEFAULT_MAX_LINES == 1000

\* --------------------------------------------------------------- characters

\* The characters str.strip() removes (those that occur in the model).
Whitespace == {" ", "\n"}

\* Case folding of re.IGNORECASE, on the letters the model uses.
Lower(c) ==
    CASE c = "E" -> "e"
      [] c = "W" -> "w"
      [] OTHER -> c

RECURSIVE LStrip(_)
LStrip(s) == IF s # <<>> /\ Head(s) \in Whitespace THEN LStrip(Tail(s)) ELSE s

RECURSIVE RStrip(_)
RStrip(s) ==
    IF s # <<>> /\ s[Len(s)] \in Whitespace
    THEN RStrip(SubSeq(s, 1, Len(s) - 1))
    ELSE s

\* str.strip(): leading and trailing whitespace removed.
Strip(s) == RStrip(LStrip(s))

\* str[n:] for n >= 0.
DropFirst(s, n) == SubSeq(s, n + 1, Len(s))

\* ----------------------------------------------------------------- patterns

\* A pattern is an alternation of literals, lit1|lit2|..., as the patterns of
\* DEFAULT_CONFIG are: a sequence of alternatives, each a sequence of
\* characters.  An unbalanced "(" stands for any pattern re cannot compile.
Compiles(pattern) ==
    \A a \in 1..Len(pattern) : \A k \in 1..Len(pattern[a]) : pattern[a][k] # "("

LiteralAt(lit, line, p) ==
    /\ p + Len(lit) - 1 <= Len(line)
    /\ \A k \in 1..Len(lit) : Lower(lit[k]) = Lower(line[p + k - 1])

\* re.search(pattern, line, re.IGNORECASE) is not None, for a pattern that
\* compiles.
re_search(pattern, line) ==
    \E a \in 1..Len(pattern) : \E p \in 1..(Len(line) + 1) :
        LiteralAt(pattern[a], line, p)

\* ------------------------------------------------------------ configuration

\* yaml.dump(config): a document of key/value pairs, the keys of every
\* mapping sorted, the filter list in order.
YamlDump(c) ==
    << <<"filters",
         [i \in 1..Len(c.filters) |->
            << <<"enabled", c.filters[i].enabled>>,
               <<"name", c.filters[i].name>>,
               <<"pattern", c.filters[i].pattern>> >>]>>,
       <<"log_file", c.log_file>>,
       <<"max_lines", c.max_lines>> >>

\* The file open(CONFIG_PATH, 'w') leaves behind when the dump then fails.
Truncated == <<>>

\* How a save_config call can end: written; open() raised and the file is as
\* it was; open() truncated the file and the dump raised.
SaveOutcomes == {"ok", "fail_open", "fail_write"}

\* save_config that writes nothing: the file stays as it was.
save_config_Skip(c, old, outcome) == old

save_config(c, old, outcome) ==
    CASE outcome = "ok" -> YamlDump(c)
      [] outcome = "fail_open" -> old
      [] OTHER -> Truncated

\* yaml.safe_load on a document that yaml.dump wrote: the mapping it holds.
YamlLoad(document) ==
    [filters |-> [i \in 1..Len(document[1][2]) |->
                    [name |-> document[1][2][i][2][2],
                     pattern |-> document[1][2][i][3][2],
                     enabled |-> document[1][2][i][1][2]]],
     log_file |-> document[2][2],
     max_lines |-> document[3][2]]

\* load_config when config/filters.yaml exists: what yaml.safe_load returns,
\* as it is.  (On a first run it writes and returns DEFAULT_CONFIG.)
load_config(document) == YamlLoad(document)

\* ---------------------------------------------------------------- log files

DefaultLogFile == <<"logs/", "logs", ".log">>
FileIds == {"f1"}
UploadPath(file_id) == <<"logs/", file_id, ".log">>
Paths == {DefaultLogFile} \cup {UploadPath(id) : id \in FileIds}

NoFile == [exists |-> FALSE, lines |-> <<>>]
File(ls) == [exists |-> TRUE, lines |-> ls]

\* ----------------------------------------------------------------- analyzer

RECURSIVE EnabledFrom(_, _)
EnabledFrom(rules, i) ==
    IF i > Len(rules) THEN <<>>
    ELSE (IF rules[i].enabled THEN <<i>> ELSE <<>>) \o EnabledFrom(rules, i + 1)

\* LogAnalyzer.update_filters: [f for f in config['filters'] if f['enabled']].
\* The list holds references to the rule dicts of config: a rule is named by
\* its position in config['filters'], which no handler changes.
update_filters(c) == EnabledFrom(c.filters, 1)

\* A dict of results: the buckets in insertion order, one per key.
DictKeys(d) == {d[i].name : i \in 1..Len(d)}
DictGet(d, name) == (CHOOSE i \in 1..Len(d) : d[i].name = name)

RECURSIVE NewResultsFrom(_, _, _, _)
NewResultsFrom(rules, F, i, d) ==
    IF i > Len(F) THEN d
    ELSE NewResultsFrom(rules, F, i + 1,
            IF rules[F[i]].name \in DictKeys(d)
            THEN [d EXCEPT ![DictGet(d, rules[F[i]].name)].lines = <<>>]
            ELSE Append(d, [name |-> rules[F[i]].name, lines |-> <<>>]))

\* analyze_logs: results = {f['name']: [] for f in self.filters}.
NewResults(rules, F) == NewResultsFrom(rules, F, 1, <<>>)

\* seq[start:] of Python, start of either sign.
SliceFrom(s, start) ==
    LET n == Len(s)
        b == IF start < 0
             THEN (IF start + n < 0 THEN 0 ELSE start + n)
             ELSE (IF start > n THEN n ELSE start)
    IN  SubSeq(s, b + 1, n)

\* analyze_logs: f.readlines()[-self.max_lines:].
Window(lines, max_lines) == SliceFrom(lines, 0 - max_lines)

\* analyze_logs, the loop over self.filters for one line: the position in F
\* of the first filter whose pattern matches, 0 when the loop ends without a
\* match, -1 when re.search raises re.error on a pattern it reaches.
RECURSIVE FirstMatch(_, _, _, _)
FirstMatch(rules, F, line, i) ==
    IF i > Len(F) THEN 0
    ELSE IF ~Compiles(rules[F[i]].pattern) THEN -1
    ELSE IF re_search(rules[F[i]].pattern, line) THEN i
    ELSE FirstMatch(rules, F, line, i + 1)

\* ScanLine without the break of line 90: the line goes to the bucket of
\* every filter that matches it.
RECURSIVE AppendAll(_, _, _, _, _)
AppendAll(results, rules, F, line, i) ==
    IF i > Len(F) THEN results
    ELSE AppendAll(
            IF /\ Compiles(rules[F[i]].pattern)
               /\ re_search(rules[F[i]].pattern, line)
               /\ rules[F[i]].name \in DictKeys(results)
            THEN [results EXCEPT ![DictGet(results, rules[F[i]].name)].lines =
                     Append(@, Strip(line))]
            ELSE results,
            rules, F, line, i + 1)

ScanLine_NoBreak(results, rules, F, line) ==
    [raised |-> FALSE, results |-> AppendAll(results, rules, F, line, 1)]

\* ScanLine with results[name].insert(0, ...) for append: the newest match
\* first.
ScanLine_Prepend(results, rules, F, line) ==
    LET m == FirstMatch(rules, F, line, 1) IN
    IF m = -1 THEN [raised |-> TRUE, results |-> results]
    ELSE IF m = 0 THEN [raised |-> FALSE, results |-> results]
    ELSE IF rules[F[m]].name \notin DictKeys(results)
         THEN [raised |-> TRUE, results |-> results]
    ELSE [raised |-> FALSE,
          results |-> [results EXCEPT ![DictGet(results, rules[F[m]].name)].lines =
                          <<Strip(line)>> \o @]]

\* One iteration of "for line in lines": the results afterwards, and whether
\* an exception (re.error, or KeyError on results[filter['name']]) ended the
\* scan.
ScanLine(results, rules, F, line) ==
    LET m == FirstMatch(rules, F, line, 1) IN
    IF m = -1 THEN [raised |-> TRUE, results |-> results]
    ELSE IF m = 0 THEN [raised |-> FALSE, results |-> results]
    ELSE IF rules[F[m]].name \notin DictKeys(results)
         THEN [raised |-> TRUE, results |-> results]
    ELSE [raised |-> FALSE,
          results |-> [results EXCEPT ![DictGet(results, rules[F[m]].name)].lines =
                          Append(@, Strip(line))]]

\* analyze_logs, lines 86-95, run with one list of filters F from the first
\* line of the window to the last: whether it returned None, and the results.
RECURSIVE ScanFrom(_, _, _, _, _)
ScanFrom(results, rules, F, lines, k) ==
    IF k > Len(lines) THEN [failed |-> FALSE, results |-> results]
    ELSE LET s == ScanLine(results, rules, F, lines[k]) IN
         IF s.raised THEN [failed |-> TRUE, results |-> results]
         ELSE ScanFrom(s.results, rules, F, lines, k + 1)

\* analyze_logs on a window, with self.filters = F throughout.
analyze_window(rules, F, lines) == ScanFrom(NewResults(rules, F), rules, F, lines, 1)

\* --------------------------------------------------------------- formatting

\* "Ne udalos' proanalizirovat' logi" (32 characters).
AnalysisFailed ==
    <<"N","e"," ","u","d","a","l","o","s","'"," ",
      "p","r","o","a","n","a","l","i","z","i","r","o","v","a","t","'"," ",
      "l","o","g","i">>

\* "Zapisi ne naideny" (17 characters).
NoRecords ==
    <<"Z","a","p","i","s","i"," ","n","e"," ","n","a","i","d","e","n","y">>

Digit(d) == SubSeq(<<"0","1","2","3","4","5","6","7","8","9">>, d + 1, d + 1)

\* str(n) for n >= 0.
RECURSIVE Digits(_)
Digits(n) == IF n < 10 THEN Digit(n) ELSE Digits(n \div 10) \o Digit(n % 10)

\* f"@ {filter_name} ({len(lines)}):", "@" standing for the pin emoji.
Header(name, n) == <<"@", " ">> \o name \o <<" ", "(">> \o Digits(n) \o <<")", ":">>

\* lines[:20], the first matches instead of the last.
LastShown_First(lines) == SubSeq(lines, 1, IF Len(lines) < SHOWN THEN Len(lines) ELSE SHOWN)

\* lines[-20:].
LastShown(lines) == SliceFrom(lines, 0 - SHOWN)

\* MessageFrom with the blocks in the reverse of the insertion order.
RECURSIVE MessageFrom_Reversed(_, _)
MessageFrom_Reversed(d, i) ==
    IF i > Len(d) THEN <<>>
    ELSE MessageFrom_Reversed(d, i + 1)
         \o (IF d[i].lines # <<>>
             THEN <<Header(d[i].name, Len(d[i].lines))>> \o LastShown(d[i].lines) \o << <<>> >>
             ELSE <<>>)

\* format_results, the loop over results.items(): the list "message".
RECURSIVE MessageFrom(_, _)
MessageFrom(d, i) ==
    IF i > Len(d) THEN <<>>
    ELSE (IF d[i].lines # <<>>
          THEN <<Header(d[i].name, Len(d[i].lines))>> \o LastShown(d[i].lines) \o << <<>> >>
          ELSE <<>>)
         \o MessageFrom(d, i + 1)

\* "\n".join(message).
RECURSIVE Join(_)
Join(message) ==
    IF message = <<>> THEN <<>>
    ELSE IF Len(message) = 1 THEN message[1]
    ELSE message[1] \o <<"\n">> \o Join(Tail(message))

\* "not results": None and the empty dict are both false.
Falsy(failed, results) == failed \/ results = <<>>

\* format_results with the two sentinels taken for one another.
format_results_Swapped(failed, results) ==
    IF Falsy(failed, results) THEN NoRecords
    ELSE LET message == MessageFrom(results, 1) IN
         IF message # <<>> THEN Join(message) ELSE AnalysisFailed

\* LogAnalyzer.format_results; (failed, results) is the value analyze_logs
\* returned, failed meaning None.
format_results(failed, results) ==
    IF Falsy(failed, results) THEN AnalysisFailed
    ELSE LET message == MessageFrom(results, 1) IN
         IF message # <<>> THEN Join(message) ELSE NoRecords

\* range(0, stop, step).
RECURSIVE Range(_, _, _)
Range(i, stop, step) == IF i >= stop THEN <<>> ELSE <<i>> \o Range(i + step, stop, step)

\* s[a:b] of Python for 0 <= a <= b.
Slice(s, a, b) == SubSeq(s, a + 1, IF b > Len(s) THEN Len(s) ELSE b)

\* Chunks with every slice one character short: formatted[i:i+3999].
Chunks_Short(formatted) ==
    IF Len(formatted) > CHUNK
    THEN LET starts == Range(0, Len(formatted), CHUNK) IN
         [k \in 1..Len(starts) |-> Slice(formatted, starts[k], starts[k] + CHUNK - 1)]
    ELSE <<formatted>>

\* send_logs: the messages it delivers for the formatted text.
Chunks(formatted) ==
    IF Len(formatted) > CHUNK
    THEN LET starts == Range(0, Len(formatted), CHUNK) IN
         [k \in 1..Len(starts) |-> Slice(formatted, starts[k], starts[k] + CHUNK)]
    ELSE <<formatted>>

\* -------------------------------------------------------------------- state

VARIABLES
    config,        \* the global dict config
    disk,          \* the document in config/filters.yaml
    fs,            \* the files under logs/: path -> contents
    an_filters,    \* analyzer.filters
    an_log_file,   \* analyzer.log_file
    an_max_lines,  \* analyzer.max_lines
    req,           \* the /logs requests: the position and locals of each
    up,            \* the upload being handled by handle_document
    last           \* the last handler that touched config: what it was given,
                   \* what it found and what it replied (history)

vars == <<config, disk, fs, an_filters, an_log_file, an_max_lines, req, up, last>>

\* The /logs requests that may be in progress at once.
Reqs == {1, 2}

\* "Analiziruyu logi...", the reply send_logs opens with.
Notice == <<"...">>

IdleReq ==
    [pc |-> "idle", failed |-> FALSE, results |-> <<>>, lines |-> <<>>, k |-> 0,
     formatted |-> <<>>, chunks |-> <<>>, out |-> <<>>,
     snap |-> <<>>, used |-> <<>>]  \* history: self.filters as read at line 80, at the latest line 87

\* ------------------------------------------------------------------- /logs

\* send_logs_start when a /logs request has to wait until no scan is in
\* progress.
send_logs_start_Queued(r) ==
    /\ \A q \in Reqs : req[q].pc \notin {"thread_start", "thread_read", "thread_scan"}
    /\ req[r].pc = "idle"
    /\ req' = [req EXCEPT ![r] = [IdleReq EXCEPT !.pc = "notified", !.out = <<Notice>>]]
    /\ UNCHANGED <<config, disk, fs, an_filters, an_log_file, an_max_lines, up, last>>

\* send_logs up to its first await: message.reply(notice).
send_logs_start(r) ==
    /\ req[r].pc = "idle"
    /\ req' = [req EXCEPT ![r] = [IdleReq EXCEPT !.pc = "notified", !.out = <<Notice>>]]
    /\ UNCHANGED <<config, disk, fs, an_filters, an_log_file, an_max_lines, up, last>>

\* send_logs_dispatch without analyzer.update_filters(): the scan runs with
\* the list of filters the analyzer already has.
send_logs_dispatch_Cached(r) ==
    /\ req[r].pc = "notified"
    /\ req' = [req EXCEPT ![r].pc = "thread_start"]
    /\ UNCHANGED <<config, disk, fs, an_filters, an_log_file, an_max_lines, up, last>>

\* send_logs: analyzer.update_filters(), then asyncio.to_thread hands
\* analyze_logs to a worker thread and the handler awaits it.
send_logs_dispatch(r) ==
    /\ req[r].pc = "notified"
    /\ an_filters' = update_filters(config)
    /\ req' = [req EXCEPT ![r].pc = "thread_start"]
    /\ UNCHANGED <<config, disk, fs, an_log_file, an_max_lines, up, last>>

\* Worker thread, analyze_logs line 80: the results dict from self.filters.
analyze_init(r) ==
    /\ req[r].pc = "thread_start"
    /\ req' = [req EXCEPT ![r].pc = "thread_read",
                          ![r].results = NewResults(config.filters, an_filters),
                          ![r].snap = an_filters]
    /\ UNCHANGED <<config, disk, fs, an_filters, an_log_file, an_max_lines, up, last>>

\* analyze_read with a missing file read as an empty one: the scan goes on
\* over no lines.
analyze_read_AsEmpty(r) ==
    /\ req[r].pc = "thread_read"
    /\ req' = [req EXCEPT ![r].pc = "thread_scan",
                          ![r].lines = Window(fs[an_log_file].lines, an_max_lines)]
    /\ UNCHANGED <<config, disk, fs, an_filters, an_log_file, an_max_lines, up, last>>

\* Worker thread, lines 83-84: open, readlines, the window; an exception of
\* open or read is caught at line 93 and the call returns None.
analyze_read(r) ==
    /\ req[r].pc = "thread_read"
    /\ IF fs[an_log_file].exists
       THEN req' = [req EXCEPT ![r].pc = "thread_scan",
                               ![r].lines = Window(fs[an_log_file].lines, an_max_lines)]
       ELSE req' = [req EXCEPT ![r].pc = "returned", ![r].failed = TRUE]
    /\ UNCHANGED <<config, disk, fs, an_filters, an_log_file, an_max_lines, up, last>>

\* Worker thread, lines 86-90: one line of the window against self.filters as
\* it is now; an exception is caught at line 93 and the call returns None.
analyze_line(r) ==
    /\ req[r].pc = "thread_scan"
    /\ req[r].k < Len(req[r].lines)
    /\ LET s == ScanLine(req[r].results, config.filters, an_filters,
                         req[r].lines[req[r].k + 1])
       IN  IF s.raised
           THEN req' = [req EXCEPT ![r].pc = "returned", ![r].failed = TRUE,
                                   ![r].used = <<an_filters>>]
           ELSE req' = [req EXCEPT ![r].results = s.results,
                                   ![r].k = @ + 1,
                                   ![r].used = <<an_filters>>]
    /\ UNCHANGED <<config, disk, fs, an_filters, an_log_file, an_max_lines, up, last>>

\* Worker thread, line 92: return results.
analyze_return(r) ==
    /\ req[r].pc = "thread_scan"
    /\ req[r].k = Len(req[r].lines)
    /\ req' = [req EXCEPT ![r].pc = "returned"]
    /\ UNCHANGED <<config, disk, fs, an_filters, an_log_file, an_max_lines, up, last>>

\* send_logs resumed, lines 159-162: format the value the thread returned and
\* cut the text into chunks.  The locals of analyze_logs are gone.
send_logs_format(r) ==
    /\ req[r].pc = "returned"
    /\ LET formatted == format_results(req[r].failed, req[r].results) IN
       req' = [req EXCEPT ![r].pc = "sending",
                          ![r].formatted = formatted,
                          ![r].chunks = Chunks(formatted),
                          ![r].lines = <<>>, ![r].k = 0,
                          ![r].snap = <<>>, ![r].used = <<>>]
    /\ UNCHANGED <<config, disk, fs, an_filters, an_log_file, an_max_lines, up, last>>

\* send_logs, lines 163 and 165: the next message.answer; after the last one
\* the handler ends, and what stays is the chat (with the text it was cut
\* from, as history).
send_logs_answer(r) ==
    /\ req[r].pc = "sending"
    /\ IF Len(req[r].chunks) > 1
       THEN req' = [req EXCEPT ![r].out = Append(@, Head(req[r].chunks)),
                               ![r].chunks = Tail(@)]
       ELSE req' = [req EXCEPT ![r] = [IdleReq EXCEPT
                                         !.out = Append(req[r].out, Head(req[r].chunks)),
                                         !.formatted = req[r].formatted]]
    /\ UNCHANGED <<config, disk, fs, an_filters, an_log_file, an_max_lines, up, last>>

\* ----------------------------------------------------------------- toggling

\* "<- Nazad", the label toggle_filter takes for the way back to the main menu.
BackLabel == <<"<", "-", " ", "N", "a", "z", "a", "d">>

\* The button texts of get_filters_keyboard: status, space, name.
ButtonText(status, name) == <<status, " ">> \o name

RECURSIVE FindFrom(_, _, _)
FindFrom(rules, name, i) ==
    IF i > Len(rules) THEN 0
    ELSE IF rules[i].name = name THEN i
    ELSE FindFrom(rules, name, i + 1)

\* FindRule falling back on the first rule when no rule has the name.
FindRule_Fallback(rules, name) ==
    IF FindFrom(rules, name, 1) = 0 THEN 1 ELSE FindFrom(rules, name, 1)

\* toggle_filter, the loop of line 214: the position of the first rule of
\* that name, 0 when the loop ends without one.
FindRule(rules, name) == FindFrom(rules, name, 1)

\* Flip that enables instead of negating.
Flip_Enable(c, i) == [c EXCEPT !.filters[i].enabled = TRUE]

\* toggle_filter, line 216.
Flip(c, i) == [c EXCEPT !.filters[i].enabled = ~@]

\* A reply of toggle_filter that reports a toggle done.
Toggled == {"enabled", "disabled"}

\* The handler toggle_filter on a message text; outcome is how its
\* save_config call ends when it makes one.  In the history, streak counts
\* the toggles of this name that succeeded one right after the other, up to
\* two, and origin is the configuration before the first of them.
toggle_filter(text, outcome) ==
    LET filter_name == Strip(DropFirst(text, 2))
        i == FindRule(config.filters, filter_name)
        event == [op |-> "toggle", name |-> filter_name, cfgBefore |-> config,
                  diskBefore |-> disk, wrote |-> FALSE, reply |-> "none",
                  streak |-> 0, origin |-> config]
        again == last.op = "toggle" /\ last.reply \in Toggled /\ last.name = filter_name
    IN  /\ IF filter_name = BackLabel
           THEN /\ outcome = "ok"
                /\ last' = [event EXCEPT !.op = "back", !.reply = "main_menu"]
                /\ UNCHANGED <<config, disk>>
           ELSE IF i = 0
           THEN /\ outcome = "ok"
                /\ last' = [event EXCEPT !.reply = "not_found"]
                /\ UNCHANGED <<config, disk>>
           ELSE /\ config' = Flip(config, i)
                /\ disk' = save_config(config', disk, outcome)
                /\ last' = [event EXCEPT
                              !.wrote = TRUE,
                              !.reply = IF outcome # "ok" THEN "error"
                                        ELSE IF config'.filters[i].enabled
                                        THEN "enabled" ELSE "disabled",
                              !.streak = IF outcome # "ok" THEN 0
                                         ELSE IF again THEN 2 ELSE 1,
                              !.origin = IF outcome = "ok" /\ again
                                         THEN last.cfgBefore ELSE config]
        /\ UNCHANGED <<fs, an_filters, an_log_file, an_max_lines, req, up>>

\* ------------------------------------------------------------------ uploads

\* handle_document up to the end of its downloads: a file name that does not
\* end in .log is turned away; get_file or download_file may raise; else the
\* file is on disk under logs/.
handle_document_download(file_id, is_log, contents, ok) ==
    /\ up.pc = "idle"
    /\ IF is_log /\ ok
       THEN /\ fs' = [fs EXCEPT ![UploadPath(file_id)] = File(contents)]
            /\ up' = [pc |-> "downloaded", path |-> UploadPath(file_id)]
       ELSE UNCHANGED <<fs, up>>
    /\ UNCHANGED <<config, disk, an_filters, an_log_file, an_max_lines, req, last>>

\* handle_document, lines 184-186 and the reply.
handle_document_commit(outcome) ==
    /\ up.pc = "downloaded"
    /\ an_log_file' = up.path
    /\ config' = [config EXCEPT !.log_file = up.path]
    /\ disk' = save_config(config', disk, outcome)
    /\ last' = [op |-> "upload", name |-> <<>>, cfgBefore |-> config,
                diskBefore |-> disk, wrote |-> TRUE,
                reply |-> IF outcome = "ok" THEN "uploaded" ELSE "error",
                streak |-> 0, origin |-> config]
    /\ up' = [pc |-> "idle", path |-> up.path]
    /\ UNCHANGED <<fs, an_filters, an_max_lines, req>>

\* ------------------------------------------------------------- filters menu

\* The handler show_filters_menu: a reply with the filters keyboard, which
\* get_filters_keyboard builds from the configuration as it is (cfgBefore in
\* the history); nothing else changes.
show_filters_menu ==
    /\ last' = [op |-> "filters", name |-> <<>>, cfgBefore |-> config,
                diskBefore |-> disk, wrote |-> FALSE, reply |-> "keyboard",
                streak |-> 0, origin |-> config]
    /\ UNCHANGED <<config, disk, fs, an_filters, an_log_file, an_max_lines, req, up>>

\* ------------------------------------------------------------------- inputs

RuleNames == {<<"A">>, <<"B">>}

\* E, w, E|w and a pattern that does not compile.
Patterns == { << <<"E">> >>, << <<"w">> >>, << <<"E">>, <<"w">> >>, << <<"(">> >> }

Rules == [name : RuleNames, pattern : Patterns, enabled : BOOLEAN]

\* Log lines: one that E matches only by case folding, one that w matches
\* and that has whitespace on both sides, one both match, one none matches.
LinePool ==
    { <<"e", "\n">>, <<" ", "W", " ", "\n">>, <<"E", "w", "\n">>, <<"x", "\n">> }

FilesUpTo(n) == UNION {[1..k -> LinePool] : k \in 0..n}

\* The texts toggle_filter is given: a button of the filters keyboard, the
\* same for a name no rule has, and the way back.
ToggleTexts ==
    {ButtonText(st, n) : st \in {"+", "-"}, n \in RuleNames \cup {<<"Z">>, BackLabel}}

\* ------------------------------------------------------------ specification

\* The state after "config = load_config()" and "analyzer = LogAnalyzer()",
\* for a configuration c and the log files f.
Loaded(c, f) ==
    /\ disk = YamlDump(c)
    /\ config = load_config(disk)
    /\ fs = f
    /\ an_filters = update_filters(c)
    /\ an_log_file = c.log_file
    /\ an_max_lines = c.max_lines
    /\ req = [r \in Reqs |-> IdleReq]
    /\ up = [pc |-> "idle", path |-> c.log_file]
    /\ last = [op |-> "none", name |-> <<>>, cfgBefore |-> c,
               diskBefore |-> YamlDump(c), wrote |-> FALSE, reply |-> "none",
               streak |-> 0, origin |-> c]

\* A log file of two lines and an uploaded one of one line.
SampleFile == << <<"e", "\n">>, <<" ", "W", " ", "\n">> >>
OtherFile == << <<"E", "w", "\n">> >>

\* The interleaving specification: the rules A: E and B: w|E with any flags,
\* the default window and logs/logs.log present; two /logs requests at once
\* with toggles and uploads between their steps.  Every configuration write
\* succeeds here; SpecToggle has the writes that fail.
Init ==
    \E en \in [1..2 -> BOOLEAN] :
        Loaded([filters |-> << [name |-> <<"A">>, pattern |-> << <<"E">> >>,
                                enabled |-> en[1]],
                               [name |-> <<"B">>, pattern |-> << <<"w">>, <<"E">> >>,
                                enabled |-> en[2]] >>,
                log_file |-> DefaultLogFile, max_lines |-> DEFAULT_MAX_LINES],
               [p \in Paths |-> IF p = DefaultLogFile THEN File(SampleFile) ELSE NoFile])

Next ==
    \/ \E r \in Reqs : send_logs_start(r)
    \/ \E r \in Reqs : send_logs_dispatch(r)
    \/ \E r \in Reqs : analyze_init(r)
    \/ \E r \in Reqs : analyze_read(r)
    \/ \E r \in Reqs : analyze_line(r)
    \/ \E r \in Reqs : analyze_return(r)
    \/ \E r \in Reqs : send_logs_format(r)
    \/ \E r \in Reqs : send_logs_answer(r)
    \/ \E n \in RuleNames \cup {<<"Z">>} : toggle_filter(ButtonText("+", n), "ok")
    \/ \E id \in FileIds : handle_document_download(id, TRUE, OtherFile, TRUE)
    \/ handle_document_commit("ok")

Spec == Init /\ [][Next]_vars

\* The scanning specification: one /logs request at a time and no other
\* handler, over every configuration of two rules, every window size up to
\* MaxWindow and every log file of up to MaxFileLines lines.
InitScan ==
    \E names \in {<< <<"A">>, <<"B">> >>, << <<"A">>, <<"A">> >>},
       pats \in [1..2 -> Patterns], en \in [1..2 -> BOOLEAN],
       w \in 0..MaxWindow,
       f \in {NoFile} \cup {File(ls) : ls \in FilesUpTo(MaxFileLines)} :
        Loaded([filters |-> [i \in 1..2 |-> [name |-> names[i], pattern |-> pats[i],
                                               enabled |-> en[i]]],
                log_file |-> DefaultLogFile, max_lines |-> w],
               [p \in Paths |-> IF p = DefaultLogFile THEN f ELSE NoFile])

NextScan ==
    \/ send_logs_start(1)
    \/ send_logs_dispatch(1)
    \/ analyze_init(1)
    \/ analyze_read(1)
    \/ analyze_line(1)
    \/ analyze_return(1)
    \/ send_logs_format(1)
    \/ send_logs_answer(1)

SpecScan == InitScan /\ [][NextScan]_vars

\* The configuration specification: toggle_filter and handle_document alone,
\* over every configuration of two rules.
InitToggle ==
    \E names \in [1..2 -> RuleNames], en \in [1..2 -> BOOLEAN] :
        Loaded([filters |-> [i \in 1..2 |-> [name |-> names[i],
                                               pattern |-> << <<"E">> >>,
                                               enabled |-> en[i]]],
                log_file |-> DefaultLogFile, max_lines |-> DEFAULT_MAX_LINES],
               [p \in Paths |-> NoFile])

NextToggle ==
    \/ \E text \in ToggleTexts, outcome \in SaveOutcomes : toggle_filter(text, outcome)
    \/ \E id \in FileIds, is_log \in BOOLEAN, ok \in BOOLEAN, ls \in {OtherFile} :
            handle_document_download(id, is_log, ls, ok)
    \/ \E outcome \in SaveOutcomes : handle_document_commit(outcome)

SpecToggle == InitToggle /\ [][NextToggle]_vars

\* The formatting specification: one /logs request over log files of up to
\* MaxBigLines numbered lines, so that a filter has more matches than
\* format_results shows.  Line t is kind, str(t), newline, the kinds going
\* round a motif.
Motifs == { <<"e">>, <<"e", "W">>, <<"W", "x", "e">>, <<"x">> }

BigFile(motif, n) ==
    [t \in 1..n |-> <<motif[((t - 1) % Len(motif)) + 1]>> \o Digits(t) \o <<"\n">>]

InitFormat ==
    \E motif \in Motifs, n \in 0..MaxBigLines, en \in [1..2 -> BOOLEAN] :
        Loaded([filters |-> << [name |-> <<"A">>, pattern |-> << <<"E">> >>,
                                enabled |-> en[1]],
                               [name |-> <<"B">>, pattern |-> << <<"w">> >>,
                                enabled |-> en[2]] >>,
                log_file |-> DefaultLogFile, max_lines |-> DEFAULT_MAX_LINES],
               [p \in Paths |-> IF p = DefaultLogFile THEN File(BigFile(motif, n))
                                ELSE NoFile])

SpecFormat == InitFormat /\ [][NextScan]_vars

\* The chunking specification: one /logs request over a log file of one long
\* line that the filter A matches, so that the formatted text, which is 10
\* characters longer than the line without its newline, is just below, at and
\* just above each multiple of CHUNK.
LongLine(len, seed) ==
    [p \in 1..len |-> IF p = 1 THEN "e" ELSE <<"x", "y", "z">>[((p * seed) % 3) + 1]]
        \o <<"\n">>

LongLens ==
    {1, CHUNK} \cup {CHUNK * m - 10 + d : m \in 1..MaxChunks, d \in {-1, 0, 1}}

InitChunk ==
    \E len \in LongLens, seed \in {1, 2} :
        Loaded([filters |-> << [name |-> <<"A">>, pattern |-> << <<"E">> >>,
                                enabled |-> TRUE],
                               [name |-> <<"B">>, pattern |-> << <<"w">> >>,
                                enabled |-> TRUE] >>,
                log_file |-> DefaultLogFile, max_lines |-> DEFAULT_MAX_LINES],
               [p \in Paths |-> IF p = DefaultLogFile
                                THEN File(<<LongLine(len, seed)>>) ELSE NoFile])

SpecChunk == InitChunk /\ [][NextScan]_vars

\* The event-loop specification: every handler of the bot at once, two /logs
\* requests among them, over a log file of one line that both rules match;
\* the rule A is the one toggled.
InitLoop ==
    \E en \in [1..2 -> BOOLEAN] :
        Loaded([filters |-> << [name |-> <<"A">>, pattern |-> << <<"E">> >>,
                                enabled |-> en[1]],
                               [name |-> <<"B">>, pattern |-> << <<"w">>, <<"E">> >>,
                                enabled |-> en[2]] >>,
                log_file |-> DefaultLogFile, max_lines |-> DEFAULT_MAX_LINES],
               [p \in Paths |-> IF p = DefaultLogFile THEN File(OtherFile) ELSE NoFile])

NextLoop ==
    \/ \E r \in Reqs : send_logs_start(r)
    \/ \E r \in Reqs : send_logs_dispatch(r)
    \/ \E r \in Reqs : analyze_init(r)
    \/ \E r \in Reqs : analyze_read(r)
    \/ \E r \in Reqs : analyze_line(r)
    \/ \E r \in Reqs : analyze_return(r)
    \/ \E r \in Reqs : send_logs_format(r)
    \/ \E r \in Reqs : send_logs_answer(r)
    \/ toggle_filter(ButtonText("+", <<"A">>), "ok")
    \/ show_filters_menu
    \/ \E id \in FileIds : handle_document_download(id, TRUE, OtherFile, TRUE)
    \/ handle_document_commit("ok")

SpecLoop == InitLoop /\ [][NextLoop]_vars

\* ------------------------------------------------------------------- claims

Min(a, b) == IF a < b THEN a ELSE b

Bucket(d, name) == d[DictGet(d, name)].lines

\* The positions of F whose pattern compiles and matches the line.
Matching(rules, F, line) ==
    {i \in 1..Len(F) :
        Compiles(rules[F[i]].pattern) /\ re_search(rules[F[i]].pattern, line)}

\* C1: when analyze_logs takes a line that the filters at positions i < j of
\* self.filters both match, i being the first that matches, no bucket but the
\* one of the filter at i changes, and that bucket gains exactly one entry --
\* unless the scan ends in an exception at this line (a pattern before i that
\* does not compile, or a name that is no key of results), which records
\* nothing.
C1_FirstMatchWins ==
    [][\A r \in Reqs :
        (req[r].pc = "thread_scan" /\ req[r].k < Len(req[r].lines) /\ req'[r] # req[r]) =>
            LET line == req[r].lines[req[r].k + 1]
                rules == config.filters
                F == an_filters
                M == Matching(rules, F, line)
                d == req[r].results
                e == req'[r].results
            IN  \A i \in M, j \in M :
                    (i < j /\ \A m \in M : i <= m) =>
                        /\ Len(e) = Len(d)
                        /\ \A b \in 1..Len(d) :
                              /\ e[b].name = d[b].name
                              /\ d[b].name # rules[F[i]].name => e[b].lines = d[b].lines
                              /\ d[b].name = rules[F[i]].name =>
                                    \/ /\ ~req'[r].failed
                                       /\ Len(e[b].lines) = Len(d[b].lines) + 1
                                       /\ SubSeq(e[b].lines, 1, Len(d[b].lines)) = d[b].lines
                                    \/ /\ req'[r].failed
                                       /\ e[b].lines = d[b].lines
                        /\ req'[r].failed <=>
                              \/ \E q \in 1..(i - 1) : ~Compiles(rules[F[q]].pattern)
                              \/ rules[F[i]].name \notin DictKeys(d)
      ]_vars

\* C1 witness: a line that two active filters of different names both match
\* has been recorded under the first and not under the second.
C1_Witness ==
    \E r \in Reqs :
        /\ req[r].pc = "thread_scan"
        /\ req[r].k >= 1
        /\ req[r].used # <<>>
        /\ LET F == req[r].used[1]
               line == req[r].lines[req[r].k]
               rules == config.filters
           IN  /\ Len(F) = 2
               /\ Matching(rules, F, line) = {1, 2}
               /\ rules[F[1]].name # rules[F[2]].name
               /\ Bucket(req[r].results, rules[F[1]].name) # <<>>
               /\ Bucket(req[r].results, rules[F[2]].name) = <<>>

\* C2: the window analyze_logs scans is the last min(N, W) lines of the file
\* of N lines, in file order, for every W = max_lines >= 0.
C2_Window ==
    \A r \in Reqs :
        req[r].pc = "thread_scan" =>
            LET file == fs[an_log_file].lines
                n == Min(Len(file), an_max_lines)
            IN  /\ Len(req[r].lines) = n
                /\ \A t \in 1..n : req[r].lines[t] = file[Len(file) - n + t]

\* The lists self.filters can be, one for each choice of enabled flags.
ActiveLists(rules) ==
    {update_filters([filters |-> [i \in 1..Len(rules) |->
                                     [rules[i] EXCEPT !.enabled = en[i]]]]) :
        en \in [1..Len(rules) -> BOOLEAN]}

\* C3: what a scan returns is what analyze_logs returns on its window for one
\* list of active filters used throughout, whatever ran between its steps.
C3_SnapshotIsolation ==
    \A r \in Reqs :
        req[r].pc = "returned" =>
            \E F \in ActiveLists(config.filters) :
                LET a == analyze_window(config.filters, F, req[r].lines) IN
                /\ a.failed = req[r].failed
                /\ ~a.failed => a.results = req[r].results

\* C4: after two toggles of one name that succeeded one right after the
\* other, the configuration is the one before the first of them -- which the
\* first had changed -- and the file holds that configuration.
C4_ToggleTwice ==
    last.streak = 2 =>
        /\ last.cfgBefore # last.origin
        /\ config = last.origin
        /\ disk = YamlDump(last.origin)

\* C4 witness: two toggles of one name have succeeded in a row.
C4_Witness ==
    /\ last.streak = 2
    /\ \E i \in 1..Len(config.filters) :
          /\ config.filters[i].name = last.name
          /\ last.cfgBefore.filters[i].enabled # config.filters[i].enabled

NoRuleNamed(c, name) == \A i \in 1..Len(c.filters) : c.filters[i].name # name

\* C5: a toggle of a name no rule has replies "not found", writes nothing and
\* leaves the configuration and its file as they were.
C5_ToggleNotFound ==
    (last.op = "toggle" /\ NoRuleNamed(last.cfgBefore, last.name)) =>
        /\ last.reply = "not_found"
        /\ ~last.wrote
        /\ config = last.cfgBefore
        /\ disk = last.diskBefore

\* C5 witness: a name no rule has was toggled.
C5_Witness ==
    /\ last.op = "toggle"
    /\ NoRuleNamed(last.cfgBefore, last.name)
    /\ last.reply = "not_found"

\* C6: after a toggle whose write failed, the enabled flags in memory are
\* those before the toggle.
C6_NoPartialPersistence ==
    (last.op = "toggle" /\ last.wrote /\ last.reply = "error") =>
        \A i \in 1..Len(config.filters) :
            config.filters[i].enabled = last.cfgBefore.filters[i].enabled

RECURSIVE Flatten(_)
Flatten(seqs) == IF seqs = <<>> THEN <<>> ELSE Head(seqs) \o Flatten(Tail(seqs))

\* C7: the messages send_logs has delivered after the notice are, in order,
\* the start of the formatted text; once it has ended they are the whole
\* text, the c-th being its characters (c-1)*4000+1 .. c*4000, none longer
\* than 4000, ceil(L/4000) of them for a text of L >= 1 characters.
C7_Chunking ==
    \A r \in Reqs :
        LET text == req[r].formatted
            sent == Tail(req[r].out)
            L == Len(text)
        IN  /\ req[r].pc = "sending" =>
                  /\ Len(Flatten(sent)) <= L
                  /\ Flatten(sent) = SubSeq(text, 1, Len(Flatten(sent)))
            /\ (req[r].pc = "idle" /\ req[r].out # <<>>) =>
                  /\ L >= 1
                  /\ Flatten(sent) = text
                  /\ Len(sent) = (L + CHUNK - 1) \div CHUNK
                  /\ \A c \in 1..Len(sent) :
                        /\ Len(sent[c]) <= CHUNK
                        /\ sent[c] = SubSeq(text, (c - 1) * CHUNK + 1, Min(c * CHUNK, L))

\* C7 witness: a text that is no multiple of 4000 characters long has been
\* delivered in three messages.
C7_Witness ==
    \E r \in Reqs :
        /\ req[r].pc = "idle"
        /\ Len(req[r].out) = 4
        /\ Len(req[r].formatted) % CHUNK # 0

\* C8: a result that is not None and whose buckets are all empty, a result
\* with no bucket included, is formatted as the "no records" sentinel.
C8_EmptyResult ==
    \A r \in Reqs :
        ( /\ req[r].pc = "sending"
          /\ ~req[r].failed
          /\ \A b \in 1..Len(req[r].results) : req[r].results[b].lines = <<>> ) =>
            req[r].formatted = NoRecords

\* C9: a None result is formatted as the "analysis failed" sentinel, which is
\* not the text an empty result is formatted as.
C9_FailureSentinel ==
    \A r \in Reqs :
        (req[r].pc = "sending" /\ req[r].failed) =>
            /\ req[r].formatted = AnalysisFailed
            /\ req[r].formatted # NoRecords

\* C9 witness: an analysis that returned None has been formatted.
C9_Witness ==
    \E r \in Reqs : req[r].pc = "sending" /\ req[r].failed

\* The position of the first newline of text at or after p, Len(text) + 1
\* when there is none.
NextNewline(text, p) ==
    CHOOSE q \in p..(Len(text) + 1) :
        /\ q = Len(text) + 1 \/ text[q] = "\n"
        /\ \A k \in p..(q - 1) : text[k] # "\n"

\* text.split("\n"), from position p on.
RECURSIVE SplitFrom(_, _)
SplitFrom(text, p) ==
    LET q == NextNewline(text, p) IN
    IF q > Len(text) THEN <<SubSeq(text, p, Len(text))>>
    ELSE <<SubSeq(text, p, q - 1)>> \o SplitFrom(text, q + 1)

SplitLines(text) == SplitFrom(text, 1)

\* The lines of text before the block of bucket i: a header, the lines shown
\* and a blank line for each bucket before it that is not empty.
RECURSIVE BlockOffset(_, _)
BlockOffset(d, i) ==
    IF i = 1 THEN 0
    ELSE BlockOffset(d, i - 1)
         + (IF d[i - 1].lines = <<>> THEN 0 ELSE Min(Len(d[i - 1].lines), SHOWN) + 2)

\* The lines of the window that go to the bucket of that name when F is the
\* list of filters.
MatchedBy(rules, F, lines, name) ==
    {t \in 1..Len(lines) :
        LET m == FirstMatch(rules, F, lines[t], 1) IN
        m > 0 /\ rules[F[m]].name = name}

\* C10: a bucket holds every line of the window matched for its filter; and
\* the block of a bucket of n >= 1 lines is a header with the count n, then
\* the last min(n, 20) lines of the bucket in order, then a blank line.
C10_ShowLast20 ==
    \A r \in Reqs :
        LET d == req[r].results IN
        /\ (req[r].pc = "returned" /\ ~req[r].failed) =>
              \A i \in 1..Len(d) :
                  Len(d[i].lines) =
                      Cardinality(MatchedBy(config.filters, req[r].snap,
                                            req[r].lines, d[i].name))
        /\ (req[r].pc = "sending" /\ ~req[r].failed) =>
              LET text == SplitLines(req[r].formatted) IN
              \A i \in 1..Len(d) :
                  LET n == Len(d[i].lines)
                      m == Min(n, SHOWN)
                      o == BlockOffset(d, i)
                  IN  n >= 1 =>
                        /\ Len(text) >= o + m + 2
                        /\ text[o + 1] = Header(d[i].name, n)
                        /\ \A t \in 1..m : text[o + 1 + t] = d[i].lines[n - m + t]
                        /\ text[o + m + 2] = <<>>

\* C10 witness: two buckets of more than 20 lines each have been formatted.
C10_Witness ==
    \E r \in Reqs :
        /\ req[r].pc = "sending"
        /\ ~req[r].failed
        /\ Len(req[r].results) = 2
        /\ \A i \in 1..2 : Len(req[r].results[i].lines) > SHOWN

\* C11: when the log file of the analyzer does not exist or cannot be read,
\* analyze_logs scans nothing and returns None, and the /logs request delivers
\* after its notice exactly one message, the "analysis failed" sentinel.
C11_IOFailureContained ==
    \A r \in Reqs :
        ~fs[an_log_file].exists =>
            /\ req[r].pc # "thread_scan"
            /\ req[r].pc \in {"returned", "sending"} =>
                  /\ req[r].failed
                  /\ \A b \in 1..Len(req[r].results) : req[r].results[b].lines = <<>>
            /\ req[r].pc = "sending" =>
                  /\ req[r].formatted = AnalysisFailed
                  /\ req[r].chunks = <<AnalysisFailed>>
                  /\ req[r].out = <<Notice>>
            /\ (req[r].pc = "idle" /\ req[r].out # <<>>) =>
                  req[r].out = <<Notice, AnalysisFailed>>

\* C11 witness: a /logs request on a missing log file has ended.
C11_Witness ==
    \E r \in Reqs :
        /\ ~fs[an_log_file].exists
        /\ req[r].pc = "idle"
        /\ req[r].out = <<Notice, AnalysisFailed>>

\* The replies of a handler whose write succeeded.
Committed == Toggled \cup {"uploaded"}

\* C12: the mutation of a toggle or upload handler and its write of the whole
\* configuration are one step: every step that changes the configuration in
\* memory or its file is the step of one such handler, which writes before it
\* replies; when the write succeeds the file holds the configuration in
\* memory, a completed toggle included; so the file and the memory, equal at
\* the start, differ only after a step whose write failed.
C12_CommittedMutations ==
    [][ /\ (config' # config \/ disk' # disk) =>
              /\ last'.op \in {"toggle", "upload"}
              /\ last'.wrote
              /\ last'.cfgBefore = config
              /\ last'.diskBefore = disk
              /\ last'.reply \in Committed \cup {"error"}
              /\ last'.reply \in Committed => disk' = YamlDump(config')
              /\ last'.reply \in Toggled =>
                    \E i \in 1..Len(config.filters) :
                        /\ config.filters[i].name = last'.name
                        /\ config' = Flip(config, i)
        /\ (last' # last /\ last'.reply \in Committed) =>
              /\ last'.wrote
              /\ disk' = YamlDump(config')
        /\ (disk = YamlDump(config) /\ disk' # YamlDump(config')) =>
              (last'.wrote /\ last'.reply = "error" /\ last'.cfgBefore = config)
      ]_vars

\* C12 witness: a toggle has completed after an upload had, no upload is in
\* progress, and the file holds the configuration in memory.
C12_Witness ==
    /\ last.op = "toggle"
    /\ last.reply \in Toggled
    /\ last.cfgBefore.log_file # DefaultLogFile
    /\ config # last.cfgBefore
    /\ up.pc = "idle"
    /\ disk = YamlDump(config)

\* The names of the rules at the positions F, in order.
NamesOf(rules, F) == [b \in 1..Len(F) |-> rules[F[b]].name]

\* The keys of a dict of results, in insertion order.
KeyList(d) == [b \in 1..Len(d) |-> d[b].name]

\* C13: the filters an analysis uses are the enabled rules of the
\* configuration in definition order; the keys of its result are the names of
\* those filters in that order; a rule that is disabled has no bucket and no
\* header in the formatted text; and the configuration is the one that was
\* loaded.
C13_ActiveSet ==
    \A r \in Reqs :
        LET rules == config.filters
            d == req[r].results
            F == req[r].snap
        IN  /\ req[r].pc \in {"thread_read", "thread_scan", "returned"} =>
                  /\ \A a \in 1..Len(F), b \in 1..Len(F) : a < b => F[a] < F[b]
                  /\ {F[b] : b \in 1..Len(F)} = {i \in 1..Len(rules) : rules[i].enabled}
                  /\ KeyList(d) = NamesOf(rules, F)
                  /\ \A i \in 1..Len(rules) :
                        ~rules[i].enabled => rules[i].name \notin DictKeys(d)
            /\ (req[r].pc = "sending" /\ ~req[r].failed) =>
                  \A i \in 1..Len(rules), n \in 0..Len(fs[an_log_file].lines) :
                      ~rules[i].enabled =>
                          \A t \in 1..Len(SplitLines(req[r].formatted)) :
                              SplitLines(req[r].formatted)[t] # Header(rules[i].name, n)
            /\ config = last.origin

\* C13 for configurations whose rules have different names.
C13_ActiveSet_DistinctNames ==
    (\A i \in 1..Len(config.filters), j \in 1..Len(config.filters) :
        i # j => config.filters[i].name # config.filters[j].name)
    => C13_ActiveSet

\* The entries analyze_logs makes for the lines of the window at the
\* positions in T, in file order.
RECURSIVE RecordedFrom(_, _, _)
RecordedFrom(lines, T, t) ==
    IF t > Len(lines) THEN <<>>
    ELSE (IF t \in T THEN <<Strip(lines[t])>> ELSE <<>>) \o RecordedFrom(lines, T, t + 1)

\* C14: in a result that is not None there is one way to send every line of
\* the window to one bucket or to none, such that a line goes to a bucket
\* exactly when some active filter matches it, the bucket is that of a filter
\* that matches it, and every bucket is the entries of its lines in file
\* order.
C14_Partition ==
    \A r \in Reqs :
        (req[r].pc = "returned" /\ ~req[r].failed) =>
            LET rules == config.filters
                F == req[r].snap
                lines == req[r].lines
                d == req[r].results
            IN  \E g \in [1..Len(lines) -> 0..Len(d)] :
                    /\ \A t \in 1..Len(lines) :
                          /\ g[t] > 0 <=> Matching(rules, F, lines[t]) # {}
                          /\ g[t] > 0 =>
                                \E i \in Matching(rules, F, lines[t]) :
                                    rules[F[i]].name = d[g[t]].name
                    /\ \A b \in 1..Len(d) :
                          d[b].lines =
                              RecordedFrom(lines, {t \in 1..Len(lines) : g[t] = b}, 1)

\* C14 witness: of a window of two lines, one that two active filters of
\* different names match is in the first bucket only and one that no filter
\* matches is in none.
C14_Witness ==
    \E r \in Reqs :
        /\ req[r].pc = "returned"
        /\ ~req[r].failed
        /\ Len(req[r].lines) = 2
        /\ Len(req[r].results) = 2
        /\ \E t \in 1..2 : Matching(config.filters, req[r].snap, req[r].lines[t]) = {1, 2}
        /\ \E t \in 1..2 : Matching(config.filters, req[r].snap, req[r].lines[t]) = {}
        /\ Len(req[r].results[1].lines) = 1
        /\ Len(req[r].results[2].lines) = 0

\* The lines of a text that open a block: those that start with the pin.
IsHeader(l) == l # <<>> /\ l[1] = "@"

HeadersOf(text) == SelectSeq(text, IsHeader)

\* The headers of the buckets of d from the i-th on that are not empty.
RECURSIVE ExpectedHeaders(_, _)
ExpectedHeaders(d, i) ==
    IF i > Len(d) THEN <<>>
    ELSE (IF Len(d[i].lines) >= 1 THEN <<Header(d[i].name, Len(d[i].lines))>> ELSE <<>>)
         \o ExpectedHeaders(d, i + 1)

\* C15: the blocks of the formatted text are, in the insertion order of the
\* result, one for each bucket that has a line and none for a bucket that has
\* no line; the insertion order is the definition order of the active
\* filters.
C15_BlockOrder ==
    \A r \in Reqs :
        (req[r].pc = "sending" /\ ~req[r].failed) =>
            /\ HeadersOf(SplitLines(req[r].formatted)) = ExpectedHeaders(req[r].results, 1)
            /\ KeyList(req[r].results) = NamesOf(config.filters, update_filters(config))

\* C15 witness: a result of two buckets, both with lines, has been formatted.
C15_Witness ==
    \E r \in Reqs :
        /\ req[r].pc = "sending"
        /\ ~req[r].failed
        /\ Len(req[r].results) = 2
        /\ Len(req[r].results[1].lines) >= 1
        /\ Len(req[r].results[2].lines) > Len(req[r].results[1].lines)
        /\ Len(HeadersOf(SplitLines(req[r].formatted))) = 2

\* The lines of the window at the positions in T, in file order, each without
\* its trailing whitespace.
RECURSIVE RightStrippedFrom(_, _, _)
RightStrippedFrom(lines, T, t) ==
    IF t > Len(lines) THEN <<>>
    ELSE (IF t \in T THEN <<RStrip(lines[t])>> ELSE <<>>)
         \o RightStrippedFrom(lines, T, t + 1)

\* C16: the entry recorded for a matched line is the line without its
\* trailing whitespace and newline, its leading whitespace kept.
C16_Whitespace ==
    \A r \in Reqs :
        (req[r].pc = "returned" /\ ~req[r].failed) =>
            \A b \in 1..Len(req[r].results) :
                req[r].results[b].lines =
                    RightStrippedFrom(req[r].lines,
                                      MatchedBy(config.filters, req[r].snap, req[r].lines,
                                                req[r].results[b].name),
                                      1)

\* C16 for windows none of whose lines starts with whitespace.
C16_Whitespace_NoLeading ==
    (\A r \in Reqs : \A t \in 1..Len(req[r].lines) :
        LStrip(req[r].lines[t]) = req[r].lines[t])
    => C16_Whitespace

\* A configuration that is structurally valid: the names of its rules all
\* different and every pattern one that compiles.
ValidConfig(c) ==
    /\ \A i \in 1..Len(c.filters), j \in 1..Len(c.filters) :
          i # j => c.filters[i].name # c.filters[j].name
    /\ \A i \in 1..Len(c.filters) : Compiles(c.filters[i].pattern)

\* An analysis returns None only when the log file cannot be read.
C17_NoScanTimeFailure ==
    \A r \in Reqs :
        (req[r].pc \in {"returned", "sending"} /\ req[r].failed) =>
            ~fs[an_log_file].exists

\* C17: what load_config returns for the configuration file is structurally
\* valid -- on a file that holds an invalid configuration it fails, and the
\* program does not run -- and so no analysis fails at scan time because of
\* a filter.
C17_ValidatedAtLoad ==
    /\ ValidConfig(load_config(disk))
    /\ C17_NoScanTimeFailure

\* The worker thread of request r is running analyze_logs.
Scanning(r) == req[r].pc \in {"thread_start", "thread_read", "thread_scan"}

\* The step the handler of the /logs request q takes next on the event loop;
\* while q waits for its worker thread it has none.
HandlerStep(q) ==
    \/ send_logs_start(q)
    \/ send_logs_dispatch(q)
    \/ send_logs_format(q)
    \/ send_logs_answer(q)

\* C18: while the worker thread of one /logs request scans, every other
\* handler can take its next step: a toggle, the filters menu, either half of
\* an upload, and another /logs request, whose own worker thread can also
\* go on.
C18_NonBlockingScan ==
    \A r \in Reqs :
        Scanning(r) =>
            /\ ENABLED toggle_filter(ButtonText("+", <<"A">>), "ok")
            /\ ENABLED show_filters_menu
            /\ up.pc = "idle" =>
                  ENABLED (\E id \in FileIds :
                              handle_document_download(id, TRUE, OtherFile, TRUE))
            /\ up.pc = "downloaded" => ENABLED handle_document_commit("ok")
            /\ \A q \in Reqs \ {r} :
                  IF Scanning(q)
                  THEN ENABLED (analyze_init(q) \/ analyze_read(q) \/ analyze_line(q)
                                   \/ analyze_return(q))
                  ELSE ENABLED HandlerStep(q)

\* C18 witness: while the worker thread of one /logs request has not yet
\* scanned its line, another /logs request is delivering its result, an
\* upload has been committed and the filters menu has just been shown.
C18_Witness ==
    \E r \in Reqs, q \in Reqs :
        /\ r # q
        /\ req[r].pc = "thread_scan"
        /\ req[r].k = 0
        /\ req[q].pc = "sending"
        /\ an_log_file # DefaultLogFile
        /\ last.op = "filters"

\* The positions of the rules of c that are enabled.
EnabledRules(c) == {i \in 1..Len(c.filters) : c.filters[i].enabled}

\* C19: when a /logs request goes from its notice to its scan, the list of
\* filters of the analyzer becomes the enabled rules of the configuration as
\* it is then, in definition order, whatever the list was; if the last
\* handler to touch the configuration was a completed toggle, the rule it
\* toggled is in the list exactly when it was disabled before; nothing but a
\* /logs request that begins its scan changes the list; and the scan takes
\* its buckets from that list.
C19_ToggleTakesEffect ==
    [][\A r \in Reqs :
        /\ (req[r].pc = "notified" /\ req'[r].pc # "notified") =>
              /\ req'[r].pc = "thread_start"
              /\ {an_filters'[b] : b \in 1..Len(an_filters')} = EnabledRules(config)
              /\ \A a \in 1..Len(an_filters'), b \in 1..Len(an_filters') :
                    a < b => an_filters'[a] < an_filters'[b]
              /\ (last.op = "toggle" /\ last.reply \in Toggled) =>
                    \E i \in 1..Len(config.filters) :
                        /\ config.filters[i].name = last.name
                        /\ (\E b \in 1..Len(an_filters') : an_filters'[b] = i)
                              <=> ~last.cfgBefore.filters[i].enabled
        /\ an_filters' # an_filters =>
              \E q \in Reqs : req[q].pc = "notified" /\ req'[q].pc = "thread_start"
        /\ (req[r].pc = "thread_start" /\ req'[r].pc # "thread_start") =>
              /\ req'[r].snap = an_filters
              /\ KeyList(req'[r].results) = NamesOf(config.filters, an_filters)
      ]_vars

\* C19 witness: the only /logs request there has been began its scan after a
\* completed toggle, and scans with the rules enabled after the toggle, which
\* are not those enabled before it.
C19_Witness ==
    \E r \in Reqs :
        /\ \A q \in Reqs \ {r} : req[q] = IdleReq
        /\ req[r].pc = "thread_read"
        /\ last.op = "toggle"
        /\ last.reply \in Toggled
        /\ req[r].snap = update_filters(config)
        /\ req[r].snap # update_filters(last.cfgBefore)

\* The configuration d is the configuration c with the enabled flag of the
\* rule at position i inverted and nothing else changed.
OnlyFlagChanged(c, d, i) ==
    /\ Len(d.filters) = Len(c.filters)
    /\ \A j \in 1..Len(c.filters) :
          /\ d.filters[j].name = c.filters[j].name
          /\ d.filters[j].pattern = c.filters[j].pattern
          /\ d.filters[j].enabled = IF j = i THEN ~c.filters[j].enabled
                                     ELSE c.filters[j].enabled
    /\ d.log_file = c.log_file
    /\ d.max_lines = c.max_lines

\* The first position of a rule of c with that name.
FirstNamed(c, name) ==
    CHOOSE i \in 1..Len(c.filters) :
        /\ c.filters[i].name = name
        /\ \A j \in 1..(i - 1) : c.filters[j].name # name

\* After a toggle that succeeded, the configuration in memory is the one
\* before it with only the flag of the first rule of that name inverted, and
\* the file holds the configuration in memory.
C20_ToggleFrame_InMemory ==
    (last.op = "toggle" /\ last.reply \in Toggled) =>
        /\ OnlyFlagChanged(last.cfgBefore, config, FirstNamed(last.cfgBefore, last.name))
        /\ disk = YamlDump(config)

\* C20: after a toggle that succeeded, the configuration in memory and the
\* configuration in the file are each the one before the toggle with only
\* the enabled flag of the first rule of that name inverted.
C20_ToggleFrame ==
    (last.op = "toggle" /\ last.reply \in Toggled) =>
        LET i == FirstNamed(last.cfgBefore, last.name) IN
        /\ OnlyFlagChanged(last.cfgBefore, config, i)
        /\ last.diskBefore # Truncated
        /\ OnlyFlagChanged(YamlLoad(last.diskBefore), YamlLoad(disk), i)

====
